---- MODULE Spec2Model ----
(***************************************************************************)
(* Edu-SmartAI backend (src/main.py, src/models.py, src/schemas.py,        *)
(* src/database.py): the three tables, the HTTP handlers that read and     *)
(* write them, and the requests in flight on the workers of the server;    *)
(* and the TEKS standards service with its router (src/service.py,         *)
(* src/modules/teks/router.py).                                            *)
(*                                                                         *)
(* A handler that talks to the database more than once, or that waits for  *)
(* the external completion endpoint, is split into one action per          *)
(* database statement / external call, so that requests served by          *)
(* different workers interleave the way READ COMMITTED transactions do.    *)
(***************************************************************************)
EXTENDS Integers, Sequences, FiniteSets, TLC

VARIABLES
    organizations,  \* table organizations: id -> row          (models.py:12-29)
    users,          \* table users: id -> row                  (models.py:32-49)
    lesson_plans,   \* table lesson_plans: id -> row           (models.py:52-78)
    lesson_seq,     \* last value of the lesson_plans id sequence
    now,            \* the clock (datetime.utcnow / func.now), in ticks
    req,            \* worker -> the request it is serving and its locals
    tokens,         \* bearer tokens issued so far
    resp,           \* the response sent by the step that led here (or none)
    registered,     \* history: the bodies of the registrations that succeeded
    teks_data,      \* TEKSService.teks_data: grade -> subject -> list of standards
    generated,      \* history: organization id -> generate requests answered 200
                    \* (kept by GenerateCounted, where requests are served serially)
    sessions,       \* worker -> the database session get_db gave its request
    setup           \* the run of the setup script init_db.py: its position

vars == <<organizations, users, lesson_plans, lesson_seq, now, req, tokens, resp,
          registered, teks_data, generated, sessions, setup>>

----------------------------------------------------------------------------
(* Bounds of the model *)

MaxLessons == 3      \* lesson rows ever inserted (the id sequence stops here)
MaxLimit == 2        \* largest max_monthly_lessons of a seeded organization
MaxTime == 2         \* the clock stops here
TicksPerMonth == 2   \* clock ticks in one calendar month
MaxTokens == 1       \* distinct bearer tokens issued
MaxOrgs == 1         \* organizations created after the seeded ones
MaxRequests == 2     \* requests per worker whose database session is followed

\* Two server workers: a request of one may interleave with a request of the other.
Workers == {"w1", "w2"}

NULL == "NULL"

----------------------------------------------------------------------------
(* Pure helpers *)

\* Fault variant: ninth grade accepted too.
valid_gradesMut == {"K", "1", "2", "3", "4", "5", "6", "7", "8", "9"}

\* main.py:256
valid_grades == {"K", "1", "2", "3", "4", "5", "6", "7", "8"}

\* main.py:269-270  first_day = datetime(now.year, now.month, 1)
first_day(t) == t - (t % TicksPerMonth)

\* main.py:271-274  the count query over lesson_plans
\* Fault variant: a row created exactly at the start of the month is not counted.
MonthlyUsageMut(plans, org_id, t) ==
    Cardinality({l \in DOMAIN plans :
                    /\ plans[l].organization_id = org_id
                    /\ plans[l].created_at > first_day(t)})

monthly_usage(plans, org_id, t) ==
    Cardinality({l \in DOMAIN plans :
                    /\ plans[l].organization_id = org_id
                    /\ plans[l].created_at >= first_day(t)})

\* main.py:276  if monthly_usage >= org.max_monthly_lessons
\* Fault variant: the lifetime counter is compared instead of the month's count.
QuotaReachedLifetimeMut(usage, org) ==
    org.total_lessons_generated >= org.max_monthly_lessons

\* Fault variant: the limit itself still passes.
QuotaReachedMut(usage, org) == usage > org.max_monthly_lessons

QuotaReached(usage, org) == usage >= org.max_monthly_lessons

\* The function f with x added or overwritten.
Put(f, x, v) == [y \in DOMAIN f \cup {x} |-> IF y = x THEN v ELSE f[y]]

\* The function f without x.
Drop(f, x) == [y \in DOMAIN f \ {x} |-> f[y]]

----------------------------------------------------------------------------
(* Requests *)

\* The content sections a lesson can have; the last four are the optional ones.
BasicSections == {"main_lesson", "guided_practice", "independent_practice"}

FullSections ==
    BasicSections \cup {"learning_stations", "small_group", "tier2", "tier3"}

\* schemas.py:93-99: the include_* flags that are true when the body gives none.
DefaultSections == BasicSections

\* Bodies of POST /api/lessons/generate (schemas.py:83-99), the fields the
\* handler branches on or stores.  include is the set of sections whose
\* include_* flag is true.
GenerateRequests ==
    { [grade_level |-> g, subject |-> s, language |-> "bilingual",
       include |-> DefaultSections] :
        g \in {"K", "3", "7", "9", "k", "12", ""},
        s \in {"Mathematics", "Science", "Algebra I"} }

\* The few bodies used where two workers interleave.
FewRequests ==
    { [grade_level |-> "K", subject |-> "Mathematics", language |-> "bilingual",
       include |-> DefaultSections],
      [grade_level |-> "9", subject |-> "Mathematics", language |-> "bilingual",
       include |-> DefaultSections] }

\* What the external completion endpoint can answer (main.py:760-782):
\*   "object"   text that json.loads parses to a JSON object
\*   "array"    text that json.loads parses, but not to an object
\*   "not_json" text that json.loads rejects (json.JSONDecodeError)
\*   "error"    the call itself raises
OpenAIOutcomes == {"object", "array", "not_json", "error"}

\* A worker's request: the handler's position and locals.  openai_calls counts
\* the calls this request made to the external endpoint; monthly_usage is -1
\* until the count query has run.
NoRequest == [grade_level |-> NULL, subject |-> NULL, language |-> NULL,
              include |-> {}]

\* No prompt built yet.
NoPrompt == [sections |-> {}, language_instruction |-> NULL]

NoOrg == [name |-> NULL, subscription_tier |-> NULL, max_monthly_lessons |-> 0,
          total_lessons_generated |-> 0]

Idle == [pc |-> "idle", current_user |-> 0, request |-> NoRequest, org |-> NoOrg,
         monthly_usage |-> -1, content |-> NULL, openai_calls |-> 0,
         prompt |-> NoPrompt]

NoResponse == [op |-> "none"]

\* No request of the worker has asked get_db for a session yet.
NoSession == [state |-> "none", handler |-> "none", opened |-> 0, closed |-> 0]

\* init_db.py is not running; runs counts the runs that have ended.
NoSetup == [pc |-> "idle", org_id |-> 0, runs |-> 0]

----------------------------------------------------------------------------
(* The database as seeded before the server starts *)

\* auth.get_password_hash / auth.verify_password (imported at main.py:19-25):
\* a salted one-way hash.  The stored value carries the salt, and the digest
\* depends on both the salt and the password.
get_password_hash(password, salt) == <<salt, <<"digest", salt, password>> >>

verify_password(plain_password, hashed_password) ==
    get_password_hash(plain_password, hashed_password[1]) = hashed_password

\* A TEKS standard as stored in teks_standards.json.
Standard(code, description) == [code |-> code, description |-> description]

\* Contents of teks_standards.json as json.load returns them (service.py:26-27):
\* grade -> subject -> list of standards.  Codes are unique in a table.
SampleTeks ==
    [g \in {"4", "K"} |->
        IF g = "4"
        THEN [s \in {"Mathematics", "Science"} |->
                IF s = "Mathematics"
                THEN <<Standard("4.7D", "angles"), Standard("4.2A", "place value")>>
                ELSE <<Standard("4.6A", "energy")>>]
        ELSE [s \in {"Mathematics"} |-> <<Standard("K.2A", "counting")>>]]

\* A table in which one subject of a grade has no standard.
SparseTeks ==
    [g \in {"4"} |->
        [s \in {"Mathematics", "Science"} |->
            IF s = "Mathematics" THEN <<Standard("4.7D", "angles")>> ELSE << >>]]

\* service.py:32-40: what teks_data is when the file could not be loaded.
EmptyTeks == [g \in {} |-> [s \in {} |-> << >>]]

TeksTables == {SampleTeks, SparseTeks, EmptyTeks}

\* What _load_teks_data can find at the file's path: a file holding a table,
\* no file, a file that is not valid JSON (content: the table its text held
\* before it was damaged), a file that cannot be read.
TeksFiles ==
    {[kind |-> "valid", content |-> SampleTeks],
     [kind |-> "valid", content |-> SparseTeks],
     [kind |-> "missing", content |-> EmptyTeks],
     [kind |-> "invalid_json", content |-> SparseTeks],
     [kind |-> "unreadable", content |-> SampleTeks]}

\* Fault variant: only the missing file is handled.
load_teks_dataMut(file) ==
    IF file.kind = "missing" THEN EmptyTeks ELSE file.content

\* service.py:16-40  __init__ and _load_teks_data: teks_data starts as {} and
\* is replaced by the parsed file; FileNotFoundError, json.JSONDecodeError
\* and any other exception leave {}.
load_teks_data(file) ==
    IF file.kind = "valid" THEN file.content ELSE EmptyTeks

OrgRow(max) ==
    [name |-> "School", subscription_tier |-> "trial", max_monthly_lessons |-> max,
     total_lessons_generated |-> 0]

UserRow(email, password, salt, role, org_id, active) ==
    [email |-> email, hashed_password |-> get_password_hash(password, salt),
     role |-> role, organization_id |-> org_id, is_active |-> active,
     last_login |-> << >>]

SeedUsers ==
    <<UserRow("t1@a.edu",   "pw1", "s1", "teacher",     1, TRUE),
      UserRow("t2@a.edu",   "pw1", "s2", "teacher",     1, TRUE),
      UserRow("adm@b.edu",  "pw2", "s1", "admin",       2, TRUE),
      UserRow("root@b.edu", "pw2", "s2", "super_admin", 2, TRUE),
      UserRow("old@a.edu",  "pw1", "s1", "teacher",     1, FALSE)>>

\* Organization 1 may hold MaxLimit lessons a month, organization 2 one.
SeedOrganizations == <<OrgRow(MaxLimit), OrgRow(1)>>

\* The database and the server before the first request.
InitDb ==
    /\ organizations = SeedOrganizations
    /\ users = SeedUsers
    /\ lesson_plans = << >>
    /\ lesson_seq = 0
    /\ now = 0
    /\ req = [w \in Workers |-> Idle]
    /\ tokens = {}
    /\ resp = NoResponse
    /\ registered = {}
    /\ generated = [o \in DOMAIN SeedOrganizations |-> 0]
    /\ sessions = [w \in Workers |-> NoSession]
    /\ setup = NoSetup

Init ==
    /\ InitDb
    /\ teks_data = SampleTeks

\* models.py:41  User.organization_id
OrgOf(u) == users[u].organization_id

\* auth.get_current_active_user: the users a valid bearer token can resolve
\* to are the rows whose active flag is set.
ActiveUsers == {u \in DOMAIN users : users[u].is_active}

----------------------------------------------------------------------------
(* POST /api/lessons/generate   (main.py:247-810) *)

InFlight == {w \in Workers : req[w].pc # "idle"}

GenResponse(w, status, detail) ==
    [op |-> "generate", user |-> req[w].current_user, status |-> status,
     detail |-> detail, limit |-> 0, request |-> req[w].request,
     monthly_usage |-> req[w].monthly_usage,
     openai_calls |-> req[w].openai_calls, lesson_id |-> 0]

\* main.py:255-266: validate the grade, then load the caller's Organization row.
GenStart(w, u, r) ==
    /\ req[w].pc = "idle"
    /\ u \in ActiveUsers
    /\ lesson_seq + Cardinality(InFlight) < MaxLessons
    /\ IF r.grade_level \notin valid_grades
       THEN /\ resp' = [op |-> "generate", user |-> u, status |-> 400,
                        detail |-> "Invalid grade level", limit |-> 0,
                        request |-> r,
                        monthly_usage |-> -1,
                        openai_calls |-> 0, lesson_id |-> 0]
            /\ UNCHANGED req
       ELSE /\ req' = [req EXCEPT ![w] =
                         [Idle EXCEPT !.pc = "count", !.current_user = u,
                                      !.request = r,
                                      !.org = organizations[users[u].organization_id]]]
            /\ resp' = NoResponse
    /\ UNCHANGED <<setup, sessions, generated, teks_data, organizations, users, lesson_plans, lesson_seq, now, tokens, registered>>

\* str.lower() on the subjects that requests carry.
lower(s) ==
    CASE s = "Mathematics" -> "mathematics"
      [] s = "MATHEMATICS" -> "mathematics"
      [] s = "English Language Arts" -> "english language arts"
      [] s = "Science" -> "science"
      [] s = "Algebra I" -> "algebra i"
      [] OTHER -> s

\* main.py:313
is_full_lesson(request) ==
    lower(request.subject) \in {"mathematics", "english language arts"}

\* main.py:283-308: language_instructions.get(request.language, bilingual)
language_instruction(request) ==
    CASE request.language = "english" -> "English only"
      [] request.language = "spanish" -> "Spanish only"
      [] OTHER -> "BILINGUAL format"

\* main.py:330-756: the prompt sent to the external endpoint, reduced to the
\* sections its JSON template asks for (main.py:494-566 for a full lesson,
\* main.py:732-756 otherwise) and the language instruction it carries.
BuildPrompt(request) ==
    [sections |-> IF is_full_lesson(request) THEN FullSections ELSE BasicSections,
     language_instruction |-> language_instruction(request)]

\* main.py:268-280: count this month's rows of the organization and compare;
\* main.py:282-756: build the prompt.
GenCount(w) ==
    /\ req[w].pc = "count"
    /\ LET u     == req[w].current_user
           usage == monthly_usage(lesson_plans, users[u].organization_id, now)
       IN IF QuotaReached(usage, req[w].org)
          \* detail: "Monthly limit of {org.max_monthly_lessons} lessons reached"
          THEN /\ resp' = [GenResponse(w, 403, "Monthly limit reached") EXCEPT
                             !.limit = req[w].org.max_monthly_lessons,
                             !.monthly_usage = usage]
               /\ req' = [req EXCEPT ![w] = Idle]
          ELSE /\ req' = [req EXCEPT ![w].pc = "call", ![w].monthly_usage = usage,
                                      ![w].prompt = BuildPrompt(req[w].request)]
               /\ resp' = NoResponse
    /\ UNCHANGED <<setup, sessions, generated, teks_data, organizations, users, lesson_plans, lesson_seq, now, tokens, registered>>

\* Fault variant: a failed call is tried once more.
GenCallMut(w, outcome) ==
    /\ req[w].pc = "call"
    /\ LET called == [req EXCEPT ![w].openai_calls = @ + 1]
       IN CASE outcome = "error" /\ req[w].openai_calls = 0 ->
                 /\ req' = called
                 /\ resp' = NoResponse
            [] outcome = "error" /\ req[w].openai_calls > 0 ->
                 /\ resp' = [GenResponse(w, 500, "Failed to generate lesson plan")
                               EXCEPT !.openai_calls = called[w].openai_calls]
                 /\ req' = [req EXCEPT ![w] = Idle]
            [] outcome = "not_json" ->
                 /\ resp' = [GenResponse(w, 500, "Failed to parse OpenAI response")
                               EXCEPT !.openai_calls = called[w].openai_calls]
                 /\ req' = [req EXCEPT ![w] = Idle]
            [] OTHER ->
                 /\ req' = [called EXCEPT ![w].pc = "save", ![w].content = outcome]
                 /\ resp' = NoResponse
    /\ UNCHANGED <<setup, sessions, generated, teks_data, organizations, users, lesson_plans, lesson_seq, now, tokens, registered>>

\* main.py:758-782, 807-810: the external call and the parse of its answer.
GenCall(w, outcome) ==
    /\ req[w].pc = "call"
    /\ LET called == [req EXCEPT ![w].openai_calls = @ + 1]
       IN CASE outcome = "error" ->
                 /\ resp' = [GenResponse(w, 500, "Failed to generate lesson plan")
                               EXCEPT !.openai_calls = called[w].openai_calls]
                 /\ req' = [req EXCEPT ![w] = Idle]
            [] outcome = "not_json" ->
                 /\ resp' = [GenResponse(w, 500, "Failed to parse OpenAI response")
                               EXCEPT !.openai_calls = called[w].openai_calls]
                 /\ req' = [req EXCEPT ![w] = Idle]
            [] OTHER ->
                 /\ req' = [called EXCEPT ![w].pc = "save", ![w].content = outcome]
                 /\ resp' = NoResponse
    /\ UNCHANGED <<setup, sessions, generated, teks_data, organizations, users, lesson_plans, lesson_seq, now, tokens, registered>>

\* Fault variant: the caller's id is stored as the organization id.
NewLessonMut(w) ==
    [user_id |-> req[w].current_user,
     organization_id |-> req[w].current_user,
     grade_level |-> req[w].request.grade_level,
     subject |-> req[w].request.subject,
     created_at |-> now]

\* main.py:784-797: the new LessonPlan row.
NewLesson(w) ==
    [user_id |-> req[w].current_user,
     organization_id |-> users[req[w].current_user].organization_id,
     grade_level |-> req[w].request.grade_level,
     subject |-> req[w].request.subject,
     created_at |-> now]

\* main.py:799-800: org.total_lessons_generated += 1 on the row object loaded
\* at main.py:264; the UPDATE writes the loaded value plus one.
IncrementedTotal(w) == req[w].org.total_lessons_generated + 1

\* main.py:784-805, 809-810: insert, increment, commit, serialise the answer.
GenSave(w, commit_ok) ==
    /\ req[w].pc = "save"
    /\ IF commit_ok
       THEN LET id  == lesson_seq + 1
                oid == users[req[w].current_user].organization_id
            IN /\ lesson_seq' = id
               /\ lesson_plans' = Put(lesson_plans, id, NewLesson(w))
               /\ organizations' =
                     [organizations EXCEPT ![oid].total_lessons_generated =
                                                      IncrementedTotal(w)]
               \* response_model=schemas.LessonPlan: lesson_content must be a dict
               /\ resp' = IF req[w].content = "object"
                          THEN [GenResponse(w, 200, "lesson") EXCEPT !.lesson_id = id]
                          ELSE [GenResponse(w, 500, "Internal Server Error")
                                  EXCEPT !.lesson_id = id]
       ELSE /\ resp' = GenResponse(w, 500, "Failed to generate lesson plan")
            /\ UNCHANGED <<organizations, lesson_plans, lesson_seq>>
    /\ req' = [req EXCEPT ![w] = Idle]
    /\ UNCHANGED <<setup, sessions, teks_data, users, now, tokens, registered>>

\* The clock advances.
Tick ==
    /\ now < MaxTime
    /\ now' = now + 1
    /\ resp' = NoResponse
    /\ UNCHANGED <<setup, sessions, generated, teks_data, organizations, users, lesson_plans, lesson_seq, req, tokens, registered>>

Generate(w, U, R) ==
    \/ \E u \in U, r \in R : GenStart(w, u, r)
    \/ GenCount(w)
    \/ \E outcome \in OpenAIOutcomes : GenCall(w, outcome)
    \/ \E commit_ok \in BOOLEAN : GenSave(w, commit_ok) /\ UNCHANGED generated

\* The same handler, with the history of its 200 answers kept.
GenerateCounted(w, U, R) ==
    \/ \E u \in U, r \in R : GenStart(w, u, r)
    \/ GenCount(w)
    \/ \E outcome \in OpenAIOutcomes : GenCall(w, outcome)
    \/ \E commit_ok \in BOOLEAN :
          /\ GenSave(w, commit_ok)
          /\ generated' =
                IF resp'.status = 200
                THEN [generated EXCEPT ![OrgOf(resp'.user)] = @ + 1]
                ELSE generated

\* Two workers serve generation requests of users 1, 2 (organization 1) and
\* 3 (organization 2).
Next ==
    \/ \E w \in Workers : Generate(w, {1, 2, 3}, FewRequests)
    \/ Tick

Spec == Init /\ [][Next]_vars

\* One worker serves generation requests of user 1 with every sample body.
NextRequests ==
    \/ Generate("w1", {1}, GenerateRequests)

SpecRequests == Init /\ [][NextRequests]_vars

\* Bodies that differ in subject, language and include_* flags.
PromptRequests ==
    { [grade_level |-> "K", subject |-> s, language |-> lang, include |-> inc] :
        s \in {"Mathematics", "MATHEMATICS", "Science"},
        lang \in {"english", "bilingual", "french"},
        inc \in {DefaultSections, {"main_lesson"},
                 DefaultSections \cup {"learning_stations"}, FullSections} }

\* One worker serves generation requests of user 1 with these bodies.
NextPrompt ==
    \/ Generate("w1", {1}, PromptRequests)

SpecPrompt == Init /\ [][NextPrompt]_vars

----------------------------------------------------------------------------
(* GET and DELETE /api/lessons/{lesson_id}   (main.py:827-862) *)

\* Fault variant: members of the lesson's organization pass instead of its owner.
AccessDeniedMut(lesson, current_user) ==
    /\ lesson.organization_id # users[current_user].organization_id
    /\ users[current_user].role \notin {"admin", "super_admin"}

\* main.py:839 and main.py:857, the same condition in both handlers.
AccessDenied(lesson, current_user) ==
    /\ lesson.user_id # current_user
    /\ users[current_user].role \notin {"admin", "super_admin"}

NoLesson == [user_id |-> 0, organization_id |-> 0, grade_level |-> NULL,
             subject |-> NULL, created_at |-> 0]

LessonResponse(op, u, lesson_id, status, body) ==
    [op |-> op, user |-> u, lesson_id |-> lesson_id, status |-> status,
     body |-> body]

\* main.py:827-842
get_lesson_plan(u, lesson_id) ==
    /\ u \in ActiveUsers
    /\ resp' = IF lesson_id \notin DOMAIN lesson_plans
               THEN LessonResponse("get_lesson", u, lesson_id, 404, NoLesson)
               ELSE IF AccessDenied(lesson_plans[lesson_id], u)
               THEN LessonResponse("get_lesson", u, lesson_id, 403, NoLesson)
               ELSE LessonResponse("get_lesson", u, lesson_id, 200,
                                   lesson_plans[lesson_id])
    /\ UNCHANGED <<setup, sessions, generated, teks_data, organizations, users, lesson_plans, lesson_seq, now, req, tokens, registered>>

\* main.py:845-862
delete_lesson_plan(u, lesson_id) ==
    /\ u \in ActiveUsers
    /\ IF lesson_id \notin DOMAIN lesson_plans
       THEN /\ resp' = LessonResponse("delete_lesson", u, lesson_id, 404, NoLesson)
            /\ UNCHANGED lesson_plans
       ELSE IF AccessDenied(lesson_plans[lesson_id], u)
       THEN /\ resp' = LessonResponse("delete_lesson", u, lesson_id, 403, NoLesson)
            /\ UNCHANGED lesson_plans
       \* 200: {"message": "Lesson plan deleted successfully"}
       ELSE /\ resp' = LessonResponse("delete_lesson", u, lesson_id, 200, NoLesson)
            /\ lesson_plans' = Drop(lesson_plans, lesson_id)
    /\ UNCHANGED <<setup, sessions, generated, teks_data, organizations, users, lesson_seq, now, req, tokens, registered>>

----------------------------------------------------------------------------
(* GET /api/organizations/{org_id} and .../usage   (main.py:185-242) *)

\* main.py:193 and main.py:210, the same condition in both handlers.
OrgAccessDenied(org_id, current_user) ==
    /\ users[current_user].organization_id # org_id
    /\ users[current_user].role # "super_admin"

OrgResponse(op, u, org_id, status, body) ==
    [op |-> op, user |-> u, org_id |-> org_id, status |-> status, body |-> body]

\* Fault variant: the existence check comes first.
get_organizationMut(u, org_id) ==
    /\ u \in ActiveUsers
    /\ resp' = IF org_id \notin DOMAIN organizations
               THEN OrgResponse("get_organization", u, org_id, 404, NoOrg)
               ELSE IF OrgAccessDenied(org_id, u)
               THEN OrgResponse("get_organization", u, org_id, 403, NoOrg)
               ELSE OrgResponse("get_organization", u, org_id, 200,
                                organizations[org_id])
    /\ UNCHANGED <<setup, sessions, generated, teks_data, organizations, users, lesson_plans, lesson_seq, now, req, tokens, registered>>

\* main.py:185-199
get_organization(u, org_id) ==
    /\ u \in ActiveUsers
    /\ resp' = IF OrgAccessDenied(org_id, u)
               THEN OrgResponse("get_organization", u, org_id, 403, NoOrg)
               ELSE IF org_id \notin DOMAIN organizations
               THEN OrgResponse("get_organization", u, org_id, 404, NoOrg)
               ELSE OrgResponse("get_organization", u, org_id, 200,
                                organizations[org_id])
    /\ UNCHANGED <<setup, sessions, generated, teks_data, organizations, users, lesson_plans, lesson_seq, now, req, tokens, registered>>

\* main.py:217-242: the usage report.
UsageReport(org_id) ==
    [organization_id |-> org_id,
     monthly_lessons_used |-> monthly_usage(lesson_plans, org_id, now),
     monthly_lessons_limit |-> organizations[org_id].max_monthly_lessons,
     total_lessons |->
        Cardinality({l \in DOMAIN lesson_plans :
                        lesson_plans[l].organization_id = org_id}),
     active_users |->
        Cardinality({x \in DOMAIN users :
                        users[x].organization_id = org_id /\ users[x].is_active}),
     subscription_tier |-> organizations[org_id].subscription_tier]

\* main.py:202-242
get_organization_usage(u, org_id) ==
    /\ u \in ActiveUsers
    /\ resp' = IF OrgAccessDenied(org_id, u)
               THEN OrgResponse("get_organization_usage", u, org_id, 403, NoOrg)
               ELSE IF org_id \notin DOMAIN organizations
               THEN OrgResponse("get_organization_usage", u, org_id, 404, NoOrg)
               ELSE OrgResponse("get_organization_usage", u, org_id, 200,
                                UsageReport(org_id))
    /\ UNCHANGED <<setup, sessions, generated, teks_data, organizations, users, lesson_plans, lesson_seq, now, req, tokens, registered>>

\* Requests served one at a time: every user generates, reads and deletes
\* lessons and reads organizations.
OneRequest == [grade_level |-> "K", subject |-> "Mathematics",
               language |-> "bilingual", include |-> DefaultSections]

NextLessons ==
    \/ Generate("w1", DOMAIN users, {OneRequest})
    \/ \E u \in DOMAIN users, l \in 1..MaxLessons :
          req["w1"].pc = "idle" /\ get_lesson_plan(u, l)
    \/ \E u \in DOMAIN users, l \in 1..MaxLessons :
          req["w1"].pc = "idle" /\ delete_lesson_plan(u, l)
    \/ \E u \in DOMAIN users, o \in 1..3 :
          req["w1"].pc = "idle" /\ get_organization(u, o)
    \/ \E u \in DOMAIN users, o \in 1..3 :
          req["w1"].pc = "idle" /\ get_organization_usage(u, o)

SpecLessons == Init /\ [][NextLessons]_vars

\* Requests served one at a time within one calendar month (the clock stands
\* still): users 1 (organization 1) and 3 (organization 2) generate and delete.
NextSerial ==
    \/ GenerateCounted("w1", {1, 3}, {OneRequest})
    \/ \E u \in {1, 3}, l \in 1..MaxLessons :
          req["w1"].pc = "idle" /\ delete_lesson_plan(u, l)

SpecSerial == Init /\ [][NextSerial]_vars

----------------------------------------------------------------------------
(* Authentication   (main.py:105-161; auth.py is imported at main.py:19-25) *)

\* auth.py: the lifetime of a bearer token, in clock ticks.
ACCESS_TOKEN_EXPIRE == 2

\* auth.create_access_token: a token signed with the server's key, carrying
\* the subject and the expiry.
create_access_token(sub) ==
    [sub |-> sub, exp |-> now + ACCESS_TOKEN_EXPIRE, key |-> "SECRET_KEY"]

\* A token not signed by the server.
ForgedTokens ==
    {[sub |-> e, exp |-> MaxTime + ACCESS_TOKEN_EXPIRE, key |-> "other"] :
        e \in {"t1@a.edu", "root@b.edu"}}

\* .filter(models.User.email == email).first()   (main.py:109, main.py:138)
UserByEmail(email) ==
    LET ids == {u \in DOMAIN users : users[u].email = email}
    IN IF ids = {} THEN 0 ELSE CHOOSE u \in ids : \A v \in ids : u <= v

\* auth.get_current_active_user: 401 for a token that is forged, expired or
\* names no user, 400 for a disabled user, else the user row's id.
get_current_active_user(token) ==
    LET u == UserByEmail(token.sub)
    IN IF token.key # "SECRET_KEY" \/ now >= token.exp \/ u = 0
       THEN [status |-> 401, user |-> 0]
       ELSE IF ~users[u].is_active
       THEN [status |-> 400, user |-> 0]
       ELSE [status |-> 200, user |-> u]

\* Bodies of POST /api/auth/register (schemas.py:29-32); role NULL is a body
\* that gives no role or an empty one.
RegisterRequests ==
    { [email |-> e, password |-> p, organization_id |-> o, role |-> r] :
        e \in {"new@a.edu", "t1@a.edu"}, p \in {"pw1", "pw3"},
        o \in {1, 3}, r \in {NULL, "super_admin"} }

\* Fault variant: the column carries no unique constraint.
EmailUniqueMut(email) == TRUE

\* models.py:37  email = Column(..., unique=True): the INSERT is refused when
\* another row holds the email.

EmailUnique(email) == \A u \in DOMAIN users : users[u].email # email

\* Fault variant: the hash is taken of the wrong field.
NewUserMut(user, salt) ==
    [email |-> user.email,
     hashed_password |-> get_password_hash(user.email, salt),
     role |-> IF user.role = NULL THEN "teacher" ELSE user.role,
     organization_id |-> user.organization_id,
     is_active |-> TRUE, last_login |-> << >>]

\* main.py:120-128: the new User row (is_active and last_login take the
\* column defaults of models.py:42-43).
NewUser(user, salt) ==
    [email |-> user.email,
     hashed_password |-> get_password_hash(user.password, salt),
     role |-> IF user.role = NULL THEN "teacher" ELSE user.role,
     organization_id |-> user.organization_id,
     is_active |-> TRUE, last_login |-> << >>]

RegResponse(status, detail, body, id) ==
    [op |-> "register", status |-> status, detail |-> detail, request |-> body,
     user_id |-> id]

\* main.py:108-128: the two lookups and the construction of the row.
RegStart(w, user, salt) ==
    /\ req[w].pc = "idle"
    /\ IF UserByEmail(user.email) # 0
       THEN /\ resp' = RegResponse(400, "Email already registered", user, 0)
            /\ UNCHANGED req
       ELSE IF user.organization_id \notin DOMAIN organizations
       THEN /\ resp' = RegResponse(400, "Organization not found", user, 0)
            /\ UNCHANGED req
       ELSE /\ req' = [req EXCEPT ![w] = [pc |-> "reg_commit", request |-> user,
                                           db_user |-> NewUser(user, salt)]]
            /\ resp' = NoResponse
    /\ UNCHANGED <<setup, sessions, generated, teks_data, organizations, users, lesson_plans, lesson_seq, now, tokens,
                   registered>>

\* main.py:129-132: INSERT and commit; a violated unique constraint raises
\* IntegrityError, which the handler does not catch.
RegCommit(w) ==
    /\ req[w].pc = "reg_commit"
    /\ IF EmailUnique(req[w].db_user.email)
       THEN /\ users' = Append(users, req[w].db_user)
            /\ resp' = RegResponse(200, "user", req[w].request, Len(users) + 1)
            /\ registered' = registered \cup
                  {[email |-> req[w].request.email,
                    password |-> req[w].request.password,
                    organization_id |-> req[w].request.organization_id,
                    id |-> Len(users) + 1]}
       ELSE /\ resp' = RegResponse(500, "Internal Server Error", req[w].request, 0)
            /\ UNCHANGED <<users, registered>>
    /\ req' = [req EXCEPT ![w] = Idle]
    /\ UNCHANGED <<setup, sessions, generated, teks_data, organizations, lesson_plans, lesson_seq, now, tokens>>

\* Fault variant: the active flag is not looked at.
LoginStatusMut(username, password) ==
    LET u == UserByEmail(username)
    IN IF u = 0 \/ ~verify_password(password, users[u].hashed_password)
       THEN 401
       ELSE 200

\* main.py:138-147: the status login answers with.
LoginStatus(username, password) ==
    LET u == UserByEmail(username)
    IN IF u = 0 \/ ~verify_password(password, users[u].hashed_password)
       THEN 401
       ELSE IF ~users[u].is_active
       THEN 400
       ELSE 200

LoginResponse(username, password, status, token) ==
    [op |-> "login", username |-> username, password |-> password,
     status |-> status, access_token |-> token, token_type |-> "bearer"]

NoToken == [sub |-> NULL, exp |-> 0, key |-> NULL]

\* main.py:135-155
login(username, password) ==
    /\ LET status == LoginStatus(username, password)
           u      == UserByEmail(username)
       IN IF status # 200
          THEN /\ resp' = LoginResponse(username, password, status, NoToken)
               /\ UNCHANGED <<users, tokens>>
          ELSE /\ Cardinality(tokens \cup {create_access_token(users[u].email)})
                     <= MaxTokens
               /\ users' = [users EXCEPT ![u].last_login = <<now>>]
               /\ tokens' = tokens \cup {create_access_token(users[u].email)}
               /\ resp' = LoginResponse(username, password, 200,
                                        create_access_token(users[u].email))
    /\ UNCHANGED <<setup, sessions, generated, teks_data, organizations, lesson_plans, lesson_seq, now, req, registered>>

NoUser == [email |-> NULL]

\* main.py:158-161
read_users_me(token) ==
    /\ LET cur == get_current_active_user(token)
       IN resp' = [op |-> "me", token |-> token, status |-> cur.status,
                   user_id |-> cur.user,
                   body |-> IF cur.status = 200 THEN users[cur.user] ELSE NoUser]
    /\ UNCHANGED <<setup, sessions, generated, teks_data, organizations, users, lesson_plans, lesson_seq, now, req,
                   tokens, registered>>

Register(w) ==
    \/ \E user \in RegisterRequests, salt \in {"s3"} : RegStart(w, user, salt)
    \/ RegCommit(w)

\* Two workers serve registrations; logins and profile reads run in between.
NextAuth ==
    \/ \E w \in Workers : Register(w)
    \/ \E username \in {"t1@a.edu", "old@a.edu", "new@a.edu", "who@a.edu"},
          password \in {"pw1", "pw3"} : login(username, password)
    \/ \E token \in tokens \cup ForgedTokens : read_users_me(token)
    \/ Tick

SpecAuth == Init /\ [][NextAuth]_vars

----------------------------------------------------------------------------
(* POST /api/organizations and the admin endpoints
   (main.py:166-182, main.py:867-911) *)

\* main.py:177  max_monthly_lessons=org.max_monthly_lessons or 50
DefaultMaxMonthlyLessons == 50

\* Bodies of POST /api/organizations (schemas.py:55-57).  An optional field
\* is << >> when the body gives null and <<v>> when it gives v.
OrganizationCreates ==
    { [name |-> "Charter", subscription_tier |-> << >>,
       max_monthly_lessons |-> << >>],
      [name |-> "Charter", subscription_tier |-> <<"basic">>,
       max_monthly_lessons |-> <<0>>],
      [name |-> "Charter", subscription_tier |-> <<"basic">>,
       max_monthly_lessons |-> <<1>>] }

\* main.py:172-178: the new Organization row; Python's `or` replaces None,
\* the empty string and 0 by the default.
NewOrganization(org) ==
    [name |-> org.name,
     subscription_tier |->
        IF org.subscription_tier = << >> \/ org.subscription_tier = <<"">>
        THEN "trial" ELSE org.subscription_tier[1],
     max_monthly_lessons |->
        IF org.max_monthly_lessons = << >> \/ org.max_monthly_lessons = <<0>>
        THEN DefaultMaxMonthlyLessons ELSE org.max_monthly_lessons[1],
     total_lessons_generated |-> 0]

\* main.py:166-182.  The handler depends on the database session only
\* (main.py:167-170): whoever sends the request, with a bearer token or
\* without one (caller 0), the row is inserted.
create_organization(caller, org) ==
    /\ Len(organizations) < Len(SeedOrganizations) + MaxOrgs
    /\ organizations' = Append(organizations, NewOrganization(org))
    /\ resp' = [op |-> "create_organization", caller |-> caller, status |-> 200,
                org_id |-> Len(organizations) + 1, request |-> org,
                body |-> NewOrganization(org)]
    /\ UNCHANGED <<setup, sessions, generated, teks_data, users, lesson_plans, lesson_seq, now, req, tokens,
                   registered>>

\* Fault variant: role admin passes too.
AdminDeniedMut(current_user) ==
    users[current_user].role \notin {"admin", "super_admin"}

\* main.py:873 and main.py:886, the same condition in both handlers.
AdminDenied(current_user) == users[current_user].role # "super_admin"

\* main.py:867-877
list_organizations(u) ==
    /\ u \in ActiveUsers
    /\ resp' = IF AdminDenied(u)
               THEN [op |-> "list_organizations", user |-> u, status |-> 403,
                     detail |-> "Admin access required", body |-> << >>]
               ELSE [op |-> "list_organizations", user |-> u, status |-> 200,
                     detail |-> "organizations", body |-> organizations]
    /\ UNCHANGED <<setup, sessions, generated, teks_data, organizations, users, lesson_plans, lesson_seq, now,
                   req, tokens, registered>>

\* main.py:880-911.  For a super_admin the counts are queried and then
\* db.func (main.py:902) is evaluated: db is a sqlalchemy.orm.Session, which
\* has no attribute func, so AttributeError ends the request with 500.
get_admin_stats(u) ==
    /\ u \in ActiveUsers
    /\ resp' = IF AdminDenied(u)
               THEN [op |-> "get_admin_stats", user |-> u, status |-> 403,
                     detail |-> "Admin access required", body |-> << >>]
               ELSE [op |-> "get_admin_stats", user |-> u, status |-> 500,
                     detail |-> "Internal Server Error", body |-> << >>]
    /\ UNCHANGED <<setup, sessions, generated, teks_data, organizations, users, lesson_plans, lesson_seq, now,
                   req, tokens, registered>>

\* One worker: users 1 (organization 1) and 3 (organization 2) generate
\* across a month boundary; organizations are created without a token
\* (caller 0), by a teacher and by the super_admin, and are listed and reported.
NextAdmin ==
    \/ Generate("w1", {1, 3}, {OneRequest})
    \/ Tick
    \/ \E caller \in {0, 1, 4}, org \in OrganizationCreates :
          req["w1"].pc = "idle" /\ create_organization(caller, org)
    \/ \E u \in DOMAIN users : req["w1"].pc = "idle" /\ list_organizations(u)
    \/ \E u \in DOMAIN users : req["w1"].pc = "idle" /\ get_admin_stats(u)
    \/ \E u \in {1, 4}, o \in 1..(Len(SeedOrganizations) + MaxOrgs) :
          req["w1"].pc = "idle" /\ get_organization_usage(u, o)

SpecAdmin == Init /\ [][NextAdmin]_vars

----------------------------------------------------------------------------
(* The database session of a request   (database.py:40-49) *)

\* database.py:45-47: db = SessionLocal(); try: yield db.  The request's
\* handler starts running with the session.
get_db_open(w) ==
    /\ sessions[w].state \in {"none", "closed"}
    /\ sessions[w].opened < MaxRequests
    /\ sessions' = [sessions EXCEPT ![w] =
                       [state |-> "open", handler |-> "running",
                        opened |-> @.opened + 1, closed |-> @.closed]]
    /\ UNCHANGED <<setup, generated, teks_data, organizations, users, lesson_plans,
                   lesson_seq, now, req, tokens, resp, registered>>

\* The handler ends: it returns, raises HTTPException, or raises another
\* exception.  The generator is still suspended at its yield.
handler_ends(w, outcome) ==
    /\ sessions[w].state = "open"
    /\ sessions[w].handler = "running"
    /\ sessions' = [sessions EXCEPT ![w].handler = outcome]
    /\ UNCHANGED <<setup, generated, teks_data, organizations, users, lesson_plans,
                   lesson_seq, now, req, tokens, resp, registered>>

\* Fault variant: db.close() follows the yield without try/finally, so it
\* runs only when the handler returned.
get_db_finallyMut(w) ==
    /\ sessions[w].state = "open"
    /\ sessions[w].handler = "returned"
    /\ sessions' = [sessions EXCEPT ![w].state = "closed",
                                    ![w].closed = @ + 1]
    /\ UNCHANGED <<setup, generated, teks_data, organizations, users, lesson_plans,
                   lesson_seq, now, req, tokens, resp, registered>>

\* database.py:48-49: finally: db.close().  The framework resumes the
\* generator (or throws the handler's exception into it) once the handler
\* has ended, whichever way it ended.
get_db_finally(w) ==
    /\ sessions[w].state = "open"
    /\ sessions[w].handler \in {"returned", "http_exception", "exception"}
    /\ sessions' = [sessions EXCEPT ![w].state = "closed",
                                    ![w].closed = @ + 1]
    /\ UNCHANGED <<setup, generated, teks_data, organizations, users, lesson_plans,
                   lesson_seq, now, req, tokens, resp, registered>>

NextSessions ==
    \/ \E w \in Workers : get_db_open(w)
    \/ \E w \in Workers,
          outcome \in {"returned", "http_exception", "exception"} :
             handler_ends(w, outcome)
    \/ \E w \in Workers : get_db_finally(w)

\* Every handler ends, and the framework always runs the exit code of a
\* dependency whose request has ended.
SpecSessions ==
    /\ Init
    /\ [][NextSessions]_vars
    /\ \A w \in Workers :
          /\ WF_vars(\E outcome \in {"returned", "http_exception", "exception"} :
                        handler_ends(w, outcome))
          /\ WF_vars(get_db_finally(w))

----------------------------------------------------------------------------
(* The setup script (init_db.py) *)

\* The script is run at most MaxRuns times.
MaxRuns == 3

\* The database of a fresh deployment: create_all has made the tables and
\* nothing has filled them (init_db.py:17).
InitEmpty ==
    /\ organizations = << >>
    /\ users = << >>
    /\ lesson_plans = << >>
    /\ lesson_seq = 0
    /\ now = 0
    /\ req = [w \in Workers |-> Idle]
    /\ tokens = {}
    /\ resp = NoResponse
    /\ registered = {}
    /\ generated = << >>
    /\ sessions = [w \in Workers |-> NoSession]
    /\ setup = NoSetup
    /\ teks_data = SampleTeks

\* init_db.py:33-40: the organization of the platform's owner.
EduSmartAI ==
    [name |-> "Edu-SmartAI", subscription_tier |-> "enterprise",
     max_monthly_lessons |-> 999999, total_lessons_generated |-> 0]

\* str.strip() on what the operator typed (init_db.py:48-50): blanks around
\* the text are removed, so a line of blanks becomes the empty string.
strip(s) ==
    CASE s = " "            -> ""
      [] s = " root@edu.ai" -> "root@edu.ai"
      [] OTHER              -> s

\* What the operator types at the three prompts.
SetupInputs ==
    { [email |-> e, password |-> p, name |-> n] :
        e \in {"", " ", " root@edu.ai", "adm@edu.ai"},
        p \in {"", "pw1"}, n \in {" ", "Admin"} }

NoInputs == [email |-> NULL, password |-> NULL, name |-> NULL]

SetupResponse(outcome, input) ==
    [op |-> "init_db", outcome |-> outcome, input |-> input]

SuperAdmins == { u \in DOMAIN users : users[u].role = "super_admin" }

\* init_db.py:13-43: the run up to the first prompt.  A run that finds a
\* super_admin returns (23-30); otherwise the organization is added and
\* committed (33-43) before anything is asked.  A commit that raises is
\* rolled back (78-80).
init_db_begin(commit_ok) ==
    /\ setup.pc = "idle"
    /\ setup.runs < MaxRuns
    /\ IF SuperAdmins # {}
       THEN /\ resp' = SetupResponse("exists", NoInputs)
            /\ setup' = [setup EXCEPT !.runs = @ + 1]
            /\ UNCHANGED organizations
       ELSE IF commit_ok
       THEN /\ organizations' = Append(organizations, EduSmartAI)
            /\ setup' = [setup EXCEPT !.pc = "inputs",
                                      !.org_id = Len(organizations) + 1]
            /\ resp' = SetupResponse("organization", NoInputs)
       ELSE /\ resp' = SetupResponse("error", NoInputs)
            /\ setup' = [setup EXCEPT !.runs = @ + 1]
            /\ UNCHANGED organizations
    /\ UNCHANGED <<sessions, generated, teks_data, users, lesson_plans,
                   lesson_seq, now, req, tokens, registered>>

\* init_db.py:47-82: the run from the prompts on.  A blank field ends the run
\* (52-54); otherwise the super_admin is added with the new organization's
\* id and committed (56-65), or the failed commit is rolled back (78-80).
\* The organization committed before stays in either case.
init_db_inputs(input, salt, commit_ok) ==
    /\ setup.pc = "inputs"
    /\ LET admin_email    == strip(input.email)
           admin_password == strip(input.password)
           admin_name     == strip(input.name)
       IN IF admin_email = "" \/ admin_password = "" \/ admin_name = ""
          THEN /\ resp' = SetupResponse("blank", input)
               /\ UNCHANGED users
          ELSE IF commit_ok /\ EmailUnique(admin_email)
          THEN /\ users' = Append(users,
                               UserRow(admin_email, admin_password, salt,
                                       "super_admin", setup.org_id, TRUE))
               /\ resp' = SetupResponse("complete", input)
          ELSE /\ resp' = SetupResponse("error", input)
               /\ UNCHANGED users
    /\ setup' = [pc |-> "idle", org_id |-> 0, runs |-> setup.runs + 1]
    /\ UNCHANGED <<sessions, generated, teks_data, organizations, lesson_plans,
                   lesson_seq, now, req, tokens, registered>>

NextInitDb ==
    \/ \E commit_ok \in BOOLEAN : init_db_begin(commit_ok)
    \/ \E input \in SetupInputs, salt \in {"s1", "s2"}, commit_ok \in BOOLEAN :
          init_db_inputs(input, salt, commit_ok)

SpecInitDb == InitEmpty /\ [][NextInitDb]_vars

----------------------------------------------------------------------------
(* TEKS standards: the service (service.py) and its router (router.py) *)

\* The server starts with whatever _load_teks_data left in teks_data
\* (service.py:14-40): the content of the file, or the empty table.
InitTeks ==
    /\ InitDb
    /\ teks_data \in {load_teks_data(file) : file \in TeksFiles}

\* Fault variant: an absent subject falls back to the grade's Mathematics list.
teks_service_get_standardsMut(grade, subject) ==
    IF grade \notin DOMAIN teks_data
    THEN << >>
    ELSE IF subject \in DOMAIN teks_data[grade]
    THEN teks_data[grade][subject]
    ELSE teks_data[grade]["Mathematics"]

\* service.py:42-66  TEKSService.get_standards
teks_service_get_standards(grade, subject) ==
    IF grade \notin DOMAIN teks_data
    THEN << >>
    ELSE IF subject \in DOMAIN teks_data[grade]
    THEN teks_data[grade][subject]
    ELSE << >>

\* None, as get_standard_by_code returns it.
NoStandard == Standard(NULL, NULL)

\* The places of a table where a standard carries the code.
CodePlaces(teks_code) ==
    {p \in {<<g, s, i>> : g \in DOMAIN teks_data,
                          s \in {"Mathematics", "Science"},
                          i \in 1..2} :
        /\ p[2] \in DOMAIN teks_data[p[1]]
        /\ p[3] \in DOMAIN teks_data[p[1]][p[2]]
        /\ teks_data[p[1]][p[2]][p[3]].code = teks_code}

\* service.py:68-90  TEKSService.get_standard_by_code
teks_service_get_standard_by_code(teks_code) ==
    IF CodePlaces(teks_code) = {}
    THEN NoStandard
    ELSE LET p == CHOOSE q \in CodePlaces(teks_code) : TRUE
         IN teks_data[p[1]][p[2]][p[3]]

\* service.py:92-94  TEKSService.get_available_grades (the keys, as a set)
get_available_grades == DOMAIN teks_data

\* service.py:96-108  TEKSService.get_available_subjects (the keys, as a set)
get_available_subjects(grade) ==
    IF grade \in DOMAIN teks_data THEN DOMAIN teks_data[grade] ELSE {}

RECURSIVE SumLen(_, _)
\* The number of standards in the lists of the given subjects of one grade.
SumLen(subjects, S) ==
    IF S = {}
    THEN 0
    ELSE LET s == CHOOSE x \in S : TRUE
         IN Len(subjects[s]) + SumLen(subjects, S \ {s})

RECURSIVE SumGrades(_)
SumGrades(G) ==
    IF G = {}
    THEN 0
    ELSE LET g == CHOOSE x \in G : TRUE
         IN SumLen(teks_data[g], DOMAIN teks_data[g]) + SumGrades(G \ {g})

\* service.py:110-135  TEKSService.get_statistics
teks_service_get_statistics ==
    [total_grades |-> Cardinality(DOMAIN teks_data),
     grades |-> DOMAIN teks_data,
     subjects_by_grade |-> [g \in DOMAIN teks_data |-> DOMAIN teks_data[g]],
     standards_count_by_grade |->
        [g \in DOMAIN teks_data |-> SumLen(teks_data[g], DOMAIN teks_data[g])],
     total_standards |-> SumGrades(DOMAIN teks_data)]

\* router.py:17-29
get_grades(path) ==
    [op |-> "teks", endpoint |-> "get_grades", path |-> path, status |-> 200,
     grades |-> get_available_grades, count |-> Cardinality(get_available_grades)]

\* Fault variant: the subject is not validated.
get_standardsMut(path, grade, subject) ==
    LET answer(status, detail, standards) ==
            [op |-> "teks", endpoint |-> "get_standards", path |-> path,
             status |-> status, detail |-> detail, grade |-> grade,
             subject |-> subject, standards |-> standards,
             count |-> Len(standards)]
    IN IF grade \notin get_available_grades
       THEN answer(404, "Grade not found", << >>)
       ELSE answer(200, "standards", teks_service_get_standards(grade, subject))

\* router.py:32-68
get_standards(path, grade, subject) ==
    LET answer(status, detail, standards) ==
            [op |-> "teks", endpoint |-> "get_standards", path |-> path,
             status |-> status, detail |-> detail, grade |-> grade,
             subject |-> subject, standards |-> standards,
             count |-> Len(standards)]
    IN IF grade \notin get_available_grades
       THEN answer(404, "Grade not found", << >>)
       ELSE IF subject \notin get_available_subjects(grade)
       THEN answer(404, "Subject not found", << >>)
       ELSE answer(200, "standards", teks_service_get_standards(grade, subject))

\* router.py:71-96
get_subjects(path, grade) ==
    LET answer(status, detail, subjects) ==
            [op |-> "teks", endpoint |-> "get_subjects", path |-> path,
             status |-> status, detail |-> detail, grade |-> grade,
             subjects |-> subjects, count |-> Cardinality(subjects)]
    IN IF grade \notin get_available_grades
       THEN answer(404, "Grade not found", {})
       ELSE answer(200, "subjects", get_available_subjects(grade))

\* router.py:99-121
get_standard_by_code(path, teks_code) ==
    LET standard == teks_service_get_standard_by_code(teks_code)
        answer(status, detail) ==
            [op |-> "teks", endpoint |-> "get_standard_by_code", path |-> path,
             status |-> status, detail |-> detail, code |-> teks_code,
             standard |-> standard]
    IN IF standard = NoStandard
       THEN answer(404, "TEKS standard not found")
       ELSE answer(200, "standard")

\* router.py:124-132
get_statistics(path) ==
    [op |-> "teks", endpoint |-> "get_statistics", path |-> path, status |-> 200,
     body |-> teks_service_get_statistics]

\* The routes of the router in the order of their registration
\* (router.py:17, 32, 71, 99, 124).
TeksRoutes ==
    <<[path |-> <<"grades">>,                 endpoint |-> "get_grades"],
      [path |-> <<"{grade}", "{subject}">>,   endpoint |-> "get_standards"],
      [path |-> <<"{grade}", "subjects">>,    endpoint |-> "get_subjects"],
      [path |-> <<"code", "{teks_code}">>,    endpoint |-> "get_standard_by_code"],
      [path |-> <<"stats">>,                  endpoint |-> "get_statistics"]>>

\* A route's path matches a request path when they have the same number of
\* segments and every segment is a parameter or equal to the request's.
RouteMatches(route, path) ==
    /\ Len(route.path) = Len(path)
    /\ \A i \in 1..Len(path) :
          \/ route.path[i] \in {"{grade}", "{subject}", "{teks_code}"}
          \/ route.path[i] = path[i]

\* The first route that matches, in registration order; 0 when none does.
Dispatch(routes, path) ==
    LET hits == {i \in 1..Len(routes) : RouteMatches(routes[i], path)}
    IN IF hits = {} THEN 0 ELSE CHOOSE i \in hits : \A j \in hits : i <= j

\* Request paths below the prefix /api/teks.
TeksPaths ==
    {<<"grades">>, <<"stats">>, <<"other">>}
    \cup {<<g, s>> : g \in {"4", "K", "9", "code"},
                     s \in {"Mathematics", "Science", "Art", "subjects",
                            "4.7D", "9.9Z"}}

\* GET /api/teks/<path>   (main.py:97 mounts the router)
teks_request(path) ==
    /\ LET i == Dispatch(TeksRoutes, path)
           endpoint == IF i = 0 THEN "none" ELSE TeksRoutes[i].endpoint
       IN resp' =
            CASE endpoint = "get_grades" -> get_grades(path)
              [] endpoint = "get_standards" -> get_standards(path, path[1], path[2])
              [] endpoint = "get_subjects" -> get_subjects(path, path[1])
              [] endpoint = "get_standard_by_code" ->
                    get_standard_by_code(path, path[2])
              [] endpoint = "get_statistics" -> get_statistics(path)
              [] OTHER -> [op |-> "teks", endpoint |-> "none", path |-> path,
                           status |-> 404, detail |-> "Not Found"]
    /\ UNCHANGED <<setup, sessions, generated, teks_data, organizations, users, lesson_plans, lesson_seq, now,
                   req, tokens, registered>>

\* Direct calls of the service's lookups.
service_get_standards(grade, subject) ==
    /\ resp' = [op |-> "service", fn |-> "get_standards", grade |-> grade,
                subject |-> subject,
                result |-> teks_service_get_standards(grade, subject)]
    /\ UNCHANGED <<setup, sessions, generated, teks_data, organizations, users, lesson_plans, lesson_seq, now,
                   req, tokens, registered>>

service_get_standard_by_code(teks_code) ==
    /\ resp' = [op |-> "service", fn |-> "get_standard_by_code",
                teks_code |-> teks_code,
                result |-> teks_service_get_standard_by_code(teks_code)]
    /\ UNCHANGED <<setup, sessions, generated, teks_data, organizations, users, lesson_plans, lesson_seq, now,
                   req, tokens, registered>>

service_get_available_subjects(grade) ==
    /\ resp' = [op |-> "service", fn |-> "get_available_subjects",
                grade |-> grade, result |-> get_available_subjects(grade)]
    /\ UNCHANGED <<setup, sessions, generated, teks_data, organizations, users, lesson_plans, lesson_seq, now,
                   req, tokens, registered>>

NextTeks ==
    \/ \E path \in TeksPaths : teks_request(path)
    \/ \E grade \in {"4", "K", "9"}, subject \in {"Mathematics", "Science", "Art"} :
          service_get_standards(grade, subject)
    \/ \E teks_code \in {"4.7D", "4.6A", "K.2A", "9.9Z"} :
          service_get_standard_by_code(teks_code)
    \/ \E grade \in {"4", "K", "9"} : service_get_available_subjects(grade)

SpecTeks == InitTeks /\ [][NextTeks]_vars

----------------------------------------------------------------------------
(* Properties *)

LessonsOf(plans, org_id) ==
    {l \in DOMAIN plans : plans[l].organization_id = org_id}

\* The rows of an organization created in the calendar month of the clock.
ThisMonth(org_id) ==
    {l \in LessonsOf(lesson_plans, org_id) :
        lesson_plans[l].created_at >= now - (now % TicksPerMonth)}

K8 == {"K", "1", "2", "3", "4", "5", "6", "7", "8"}

\* C1: a generate request that reaches its quota check while its organization
\* has at least max_monthly_lessons rows of the current month is answered 403
\* with a message citing that limit, has made no external call, and leaves the
\* lesson rows and every organization's counter as they were.
C1_QuotaRejects ==
    [][\A w \in Workers :
          (/\ req[w].pc = "count"
           /\ req'[w].pc # "count"
           /\ Cardinality(ThisMonth(OrgOf(req[w].current_user)))
                 >= organizations[OrgOf(req[w].current_user)].max_monthly_lessons)
          => /\ resp'.op = "generate"
             /\ resp'.status = 403
             /\ resp'.limit =
                   organizations[OrgOf(req[w].current_user)].max_monthly_lessons
             /\ resp'.openai_calls = 0
             /\ req'[w].pc = "idle"
             /\ lesson_plans' = lesson_plans
             /\ organizations' = organizations]_vars

\* Organization 1 has as many rows this month as its limit, and the request of
\* one of its users was just refused with that limit in the message.
C1_Witness ==
    /\ resp.op = "generate"
    /\ resp.status = 403
    /\ OrgOf(resp.user) = 1
    /\ resp.limit = MaxLimit
    /\ Cardinality(ThisMonth(1)) = MaxLimit

\* C2: the step that answers a generate request with 200 adds exactly one
\* lesson row (of the caller's organization), raises that organization's
\* total_lessons_generated by exactly one, and changes no other organization.
C2_OneRowOneIncrement ==
    [][\A w \in Workers :
          (req[w].pc = "save" /\ req'[w].pc = "idle"
              /\ resp'.op = "generate" /\ resp'.status = 200)
          => LET oid == OrgOf(req[w].current_user)
             IN /\ DOMAIN lesson_plans' = DOMAIN lesson_plans \cup {resp'.lesson_id}
                /\ resp'.lesson_id \notin DOMAIN lesson_plans
                /\ lesson_plans'[resp'.lesson_id].organization_id = oid
                /\ \A l \in DOMAIN lesson_plans : lesson_plans'[l] = lesson_plans[l]
                /\ organizations'[oid].total_lessons_generated =
                      organizations[oid].total_lessons_generated + 1
                /\ \A o \in DOMAIN organizations \ {oid} :
                      organizations'[o] = organizations[o]]_vars

\* C3: the rows of one organization in the current month never exceed its
\* limit by more than the number of other workers; with two workers the
\* witness below shows the limit exceeded by one.
C3_OvershootBound ==
    \A o \in DOMAIN organizations :
        Cardinality(ThisMonth(o))
            <= organizations[o].max_monthly_lessons + Cardinality(Workers) - 1

\* Organization 1 holds limit+1 rows of this month, and the request that
\* committed last had read a usage of limit-1, as had the one before it.
C3_Witness ==
    /\ resp.op = "generate"
    /\ resp.status = 200
    /\ OrgOf(resp.user) = 1
    /\ resp.monthly_usage = MaxLimit - 1
    /\ Cardinality(ThisMonth(1)) = MaxLimit + 1
    /\ \A l \in ThisMonth(1) : lesson_plans[l].created_at = now

\* C4: a generate request whose grade_level is not one of K,1..8 is answered
\* 400 in its first step: no quota was read, no external call was made, no
\* row and no counter changed; and no request with such a grade is ever past
\* validation.
C4_InvalidGradeRejected ==
    [][/\ (resp'.op = "generate" /\ resp'.request.grade_level \notin K8)
          => /\ resp'.status = 400
             /\ resp'.monthly_usage = -1
             /\ resp'.openai_calls = 0
             /\ UNCHANGED <<lesson_plans, organizations, lesson_seq>>
             /\ \A w \in Workers : req'[w].pc = req[w].pc
       /\ \A w \in Workers :
             req'[w].pc # "idle" => req'[w].request.grade_level \in K8]_vars

C4_Witness ==
    /\ resp.op = "generate"
    /\ resp.status = 400
    /\ resp.request.grade_level = "12"
    /\ lesson_seq > 0

\* The grades for which a subject is offered: an advanced subject only for
\* grades 6-8, every other subject for K-8.
SubjectGrades(subject) ==
    IF subject = "Algebra I" THEN {"6", "7", "8"} ELSE K8

OutOfRange(r) ==
    r.grade_level \in K8 /\ r.grade_level \notin SubjectGrades(r.subject)

\* C5: a generate request whose grade is in K-8 but outside its subject's
\* grade range is never answered 200, and no lesson row holds such a pair.
C5_SubjectRangeEnforced ==
    /\ (resp.op = "generate" /\ OutOfRange(resp.request)) => resp.status # 200
    /\ \A l \in DOMAIN lesson_plans : ~OutOfRange(lesson_plans[l])

MayTouch(lesson, u) ==
    lesson.user_id = u \/ users[u].role \in {"admin", "super_admin"}

\* C6: get_lesson_plan returns an existing lesson, and delete_lesson_plan
\* removes it, exactly when the caller owns it or has role admin or
\* super_admin; every other caller gets 403 and the rows stay as they were.
C6_OwnerOrAdmin ==
    [][(resp'.op \in {"get_lesson", "delete_lesson"}
           /\ resp'.lesson_id \in DOMAIN lesson_plans)
       => LET l == lesson_plans[resp'.lesson_id]
          IN /\ resp'.status = IF MayTouch(l, resp'.user) THEN 200 ELSE 403
             /\ (resp'.op = "get_lesson" /\ resp'.status = 200) => resp'.body = l
             /\ lesson_plans' =
                   IF resp'.op = "delete_lesson" /\ resp'.status = 200
                   THEN [x \in DOMAIN lesson_plans \ {resp'.lesson_id}
                            |-> lesson_plans[x]]
                   ELSE lesson_plans]_vars

\* A teacher was just refused the deletion of a colleague's lesson, which
\* is still there.
C6_Witness ==
    /\ resp.op = "delete_lesson"
    /\ resp.status = 403
    /\ users[resp.user].role = "teacher"
    /\ resp.lesson_id \in DOMAIN lesson_plans
    /\ OrgOf(lesson_plans[resp.lesson_id].user_id) = OrgOf(resp.user)

\* C7: no endpoint answers 200 with (or deletes) a lesson or organization
\* data of an organization other than the caller's, unless the caller is
\* super_admin.
C7_TenantIsolation ==
    [][/\ (resp'.op \in {"get_lesson", "delete_lesson"} /\ resp'.status = 200)
          => \/ lesson_plans[resp'.lesson_id].organization_id = OrgOf(resp'.user)
             \/ users[resp'.user].role = "super_admin"
       /\ (resp'.op \in {"get_organization", "get_organization_usage"}
              /\ resp'.status = 200)
          => \/ resp'.org_id = OrgOf(resp'.user)
             \/ users[resp'.user].role = "super_admin"]_vars

C10_LoginFailures ==
    [][/\ resp'.op = "login"
          => LET ids == {u \in DOMAIN users : users[u].email = resp'.username}
                 ok  == \E u \in ids :
                           verify_password(resp'.password, users[u].hashed_password)
             IN /\ ~ok => resp'.status = 401
                /\ (ok /\ \E u \in ids : ~users[u].is_active) => resp'.status = 400
                /\ resp'.status # 200
                      => /\ resp'.access_token = NoToken
                         /\ tokens' = tokens
                         /\ users' = users
       /\ \A u \in DOMAIN users :
             users'[u].last_login # users[u].last_login
             => /\ resp'.op = "login"
                /\ resp'.status = 200
                /\ users[u].email = resp'.username]_vars

\* The disabled account was just refused with its correct password, after
\* an earlier login of another user had succeeded.
C10_Witness ==
    /\ resp.op = "login"
    /\ resp.status = 400
    /\ resp.username = "old@a.edu"
    /\ users[UserByEmail("old@a.edu")].last_login = << >>
    /\ tokens # {}

\* C14: TEKSService.get_standards returns the stored list when the grade and
\* the subject are both present and the empty list when either is absent;
\* get_standard_by_code returns None for a code no standard carries (and a
\* standard with that code otherwise); get_available_subjects returns the
\* empty collection for an unknown grade.
C14_ServiceLookups ==
    resp.op = "service" =>
        /\ resp.fn = "get_standards" =>
              LET present == /\ resp.grade \in DOMAIN teks_data
                             /\ resp.subject \in DOMAIN teks_data[resp.grade]
              IN /\ present => resp.result = teks_data[resp.grade][resp.subject]
                 /\ ~present => resp.result = << >>
        /\ resp.fn = "get_standard_by_code" =>
              LET carried ==
                     \E g \in DOMAIN teks_data : \E s \in DOMAIN teks_data[g] :
                        \E i \in DOMAIN teks_data[g][s] :
                           teks_data[g][s][i].code = resp.teks_code
              IN /\ ~carried => resp.result = NoStandard
                 /\ carried => resp.result.code = resp.teks_code
        /\ resp.fn = "get_available_subjects" =>
              (resp.grade \notin DOMAIN teks_data => resp.result = {})

\* The service was asked for a subject its table does not have under a grade
\* it has, and answered the empty list.
C14_Witness ==
    /\ resp.op = "service"
    /\ resp.fn = "get_standards"
    /\ resp.grade \in DOMAIN teks_data
    /\ resp.subject \notin DOMAIN teks_data[resp.grade]
    /\ resp.result = << >>

\* C15: a GET of /api/teks/{grade}/{subject} is answered 200 with the stored
\* list and its length as count when grade and subject are both in the table,
\* 404 when the grade is not, and 404 when the grade is but the subject is not.
C15_StandardsRoute ==
    (resp.op = "teks" /\ Len(resp.path) = 2) =>
        LET grade   == resp.path[1]
            subject == resp.path[2]
        IN IF grade \notin DOMAIN teks_data
           THEN resp.status = 404
           ELSE IF subject \notin DOMAIN teks_data[grade]
           THEN resp.status = 404
           ELSE /\ resp.status = 200
                /\ resp.standards = teks_data[grade][subject]
                /\ resp.count = Len(teks_data[grade][subject])

\* Grade 4 is in the table, the subject asked for is not: 404.
C15_Witness ==
    /\ resp.op = "teks"
    /\ resp.path = <<"4", "Art">>
    /\ "4" \in DOMAIN teks_data
    /\ resp.status = 404
    /\ resp.detail = "Subject not found"

\* C16: a GET of /api/teks/code/{code} is served by get_standard_by_code: 200
\* with the standard that carries the code, 404 'TEKS standard not found'
\* when no standard carries it.
C16_CodeRoute ==
    (resp.op = "teks" /\ Len(resp.path) = 2 /\ resp.path[1] = "code") =>
        /\ resp.endpoint = "get_standard_by_code"
        /\ IF teks_service_get_standard_by_code(resp.path[2]) = NoStandard
           THEN resp.status = 404 /\ resp.detail = "TEKS standard not found"
           ELSE resp.status = 200 /\ resp.standard.code = resp.path[2]

\* C17: a GET of /api/teks/{grade}/subjects for a grade of the table is served
\* by get_subjects: 200 with the grade's subjects and their number.
C17_SubjectsRoute ==
    (/\ resp.op = "teks"
     /\ Len(resp.path) = 2
     /\ resp.path[2] = "subjects"
     /\ resp.path[1] \in DOMAIN teks_data) =>
        /\ resp.endpoint = "get_subjects"
        /\ resp.status = 200
        /\ resp.subjects = DOMAIN teks_data[resp.path[1]]
        /\ resp.count = Cardinality(DOMAIN teks_data[resp.path[1]])

\* C11: list_organizations and get_admin_stats answer 403 with no data to
\* every caller whose role is not super_admin; a 200 goes to a super_admin
\* only, and list_organizations gives a super_admin all organizations.
C11_SuperAdminOnly ==
    resp.op \in {"list_organizations", "get_admin_stats"} =>
        /\ users[resp.user].role # "super_admin"
              => resp.status = 403 /\ resp.body = << >>
        /\ resp.status = 200 => users[resp.user].role = "super_admin"
        /\ (resp.op = "list_organizations"
               /\ users[resp.user].role = "super_admin")
              => resp.status = 200 /\ resp.body = organizations

\* An admin (not super_admin) was just refused the list of organizations.
C11_Witness ==
    /\ resp.op = "list_organizations"
    /\ users[resp.user].role = "admin"
    /\ resp.status = 403
    /\ Len(organizations) > Len(SeedOrganizations)

\* C12: get_organization and get_organization_usage answer 403 for every
\* organization id, existing or not, to a caller who is neither a member of
\* it nor super_admin; a member or super_admin gets 200 when the organization
\* exists and 404 when it does not.
C12_OrgAccessBeforeExistence ==
    resp.op \in {"get_organization", "get_organization_usage"} =>
        LET member == OrgOf(resp.user) = resp.org_id
            super  == users[resp.user].role = "super_admin"
        IN IF ~member /\ ~super
           THEN resp.status = 403
           ELSE resp.status =
                   IF resp.org_id \in DOMAIN organizations THEN 200 ELSE 404

\* A teacher asked for an organization id that does not exist and got 403.
C12_Witness ==
    /\ resp.op = "get_organization"
    /\ users[resp.user].role = "teacher"
    /\ resp.org_id \notin DOMAIN organizations
    /\ resp.status = 403

\* C13: an Organization row is added only by a request that carries the bearer
\* token of a user whose role is admin or super_admin.
C13_OrganizationCreatedByAdmin ==
    [][Len(organizations') > Len(organizations)
       => /\ resp'.op = "create_organization"
          /\ resp'.caller # 0
          /\ users[resp'.caller].role \in {"admin", "super_admin"}]_vars

\* C18: a generate request answered with an error after it called the
\* external endpoint has added no lesson row and changed no counter.
C18_ErrorPersistsNothing ==
    [][(resp'.op = "generate" /\ resp'.status >= 500 /\ resp'.openai_calls > 0)
       => /\ lesson_plans' = lesson_plans
          /\ organizations' = organizations]_vars

\* C19: every lesson row names the organization of the user it names.
C19_LessonOrgIsOwnersOrg ==
    \A l \in DOMAIN lesson_plans :
        /\ lesson_plans[l].user_id \in DOMAIN users
        /\ lesson_plans[l].organization_id = OrgOf(lesson_plans[l].user_id)

\* Lessons of users of both organizations exist.
C19_Witness ==
    /\ \E l \in DOMAIN lesson_plans : OrgOf(lesson_plans[l].user_id) = 1
    /\ \E l \in DOMAIN lesson_plans : OrgOf(lesson_plans[l].user_id) = 2

\* C20: the quota check refuses a request exactly when the rows of the
\* caller's organization created in the current calendar month number at
\* least max_monthly_lessons, whatever total_lessons_generated is; and
\* get_organization_usage reports that same number of rows.
C20_QuotaIsMonthly ==
    [][/\ (req["w1"].pc = "count" /\ req'["w1"].pc # "count")
          => LET oid == OrgOf(req["w1"].current_user)
                 reached == Cardinality(ThisMonth(oid))
                               >= organizations[oid].max_monthly_lessons
             IN /\ reached => resp'.op = "generate" /\ resp'.status = 403
                /\ ~reached => req'["w1"].pc = "call"
                                  /\ req'["w1"].monthly_usage
                                        = Cardinality(ThisMonth(oid))
       /\ (resp'.op = "get_organization_usage" /\ resp'.status = 200)
          => /\ resp'.body.monthly_lessons_used
                   = Cardinality(ThisMonth(resp'.org_id))
             /\ resp'.body.monthly_lessons_limit
                   = organizations[resp'.org_id].max_monthly_lessons]_vars

\* An organization whose lifetime counter had reached its limit generated
\* again in a new month: the request had counted fewer rows than the limit.
C20_Witness ==
    /\ resp.op = "generate"
    /\ resp.status = 200
    /\ resp.monthly_usage < organizations[OrgOf(resp.user)].max_monthly_lessons
    /\ organizations[OrgOf(resp.user)].total_lessons_generated - 1
          >= organizations[OrgOf(resp.user)].max_monthly_lessons

\* The sections a request asks for with its include_* flags; the optional
\* four only for Mathematics and English Language Arts.
RequestedSections(request) ==
    {s \in request.include :
        s \in BasicSections
        \/ lower(request.subject) \in {"mathematics", "english language arts"}}

\* C21: the sections a generate request asks the external endpoint for are
\* those its include_* flags select.
C21_SectionsFollowFlags ==
    \A w \in Workers :
        req[w].pc \in {"call", "save"}
        => req[w].prompt.sections = RequestedSections(req[w].request)

\* C22: a generate request whose language is not english, spanish or
\* bilingual never reaches the external call and is never answered 200.
C22_LanguageValidated ==
    /\ \A w \in Workers :
          req[w].pc \in {"call", "save"}
          => req[w].request.language \in {"english", "spanish", "bilingual"}
    /\ (resp.op = "generate" /\ resp.status = 200)
          => resp.request.language \in {"english", "spanish", "bilingual"}

\* C23: a generate request moves validate -> count -> call -> save -> respond
\* and never back; it calls the external endpoint at most once, and not at all
\* when it is answered 400 or 403; and lesson rows and organization counters
\* change only in the save step of a request whose single call returned text
\* that parsed.
C23_StepOrder ==
    [][/\ \A w \in Workers :
             /\ req'[w].pc # req[w].pc
                   => <<req[w].pc, req'[w].pc>> \in
                         {<<"idle", "count">>, <<"count", "call">>,
                          <<"count", "idle">>, <<"call", "save">>,
                          <<"call", "idle">>, <<"save", "idle">>}
             /\ req'[w].openai_calls <= 1
             /\ req'[w].pc \in {"count", "call"} => req'[w].openai_calls = 0
       /\ resp'.op = "generate"
             => /\ resp'.openai_calls <= 1
                /\ resp'.status \in {400, 403} => resp'.openai_calls = 0
       /\ (lesson_plans' # lesson_plans \/ organizations' # organizations)
             => \E w \in Workers :
                   /\ req[w].pc = "save"
                   /\ req'[w].pc = "idle"
                   /\ req[w].openai_calls = 1
                   /\ req[w].content \in {"object", "array"}]_vars

\* A request was answered 200 after exactly one call, its row is stored,
\* and the other worker's request is waiting for its own call.
C23_Witness ==
    /\ resp.op = "generate"
    /\ resp.status = 200
    /\ resp.openai_calls = 1
    /\ resp.lesson_id \in DOMAIN lesson_plans
    /\ \E w \in Workers : req[w].pc = "call" /\ req[w].openai_calls = 0

\* C26: the lifetime counter of every organization equals the number of
\* lesson rows its requests committed (no row is ever deleted here).
C26_NoLostIncrement ==
    \A o \in DOMAIN organizations :
        organizations[o].total_lessons_generated
            = Cardinality(LessonsOf(lesson_plans, o))

\* C27: with requests served one at a time within one month, the generate
\* requests of an organization answered 200 never outnumber its
\* max_monthly_lessons; and a delete removes exactly the row asked for and
\* changes no organization.
C27_SerialQuotaHolds ==
    [][/\ \A o \in DOMAIN generated' :
             generated'[o] <= organizations'[o].max_monthly_lessons
       /\ (resp'.op = "delete_lesson" /\ resp'.status = 200)
             => /\ DOMAIN lesson_plans' = DOMAIN lesson_plans \ {resp'.lesson_id}
                /\ \A l \in DOMAIN lesson_plans' : lesson_plans'[l] = lesson_plans[l]
                /\ organizations' = organizations]_vars

\* C24: a session is closed at most once and never without having been
\* opened; it is open exactly while its request is being served; and every
\* session that is open is eventually closed, however the handler ended.
C24_SessionClosedOnce ==
    /\ [](\A w \in Workers :
             /\ sessions[w].closed <= sessions[w].opened
             /\ sessions[w].opened <= sessions[w].closed + 1
             /\ sessions[w].state = "open"
                   <=> sessions[w].opened = sessions[w].closed + 1)
    /\ \A w \in Workers :
          \A n \in 1..MaxRequests :
             (sessions[w].state = "open" /\ sessions[w].opened = n)
                ~> (sessions[w].state = "closed" /\ sessions[w].closed = n)

\* The session of a request whose handler raised an exception other than
\* HTTPException is closed, and so is the second session of the other worker.
C24_Witness ==
    /\ sessions["w1"].handler = "exception"
    /\ sessions["w1"].state = "closed"
    /\ sessions["w1"].closed = 1
    /\ sessions["w2"].handler = "http_exception"
    /\ sessions["w2"].state = "closed"
    /\ sessions["w2"].closed = MaxRequests

C28_NoEscalation ==
    \A token \in tokens :
        LET me == get_current_active_user(token)
        IN (me.status = 200 /\ me.user > Len(SeedUsers))
           => /\ AdminDenied(me.user)
              /\ \A o \in DOMAIN organizations :
                    o # OrgOf(me.user) => OrgAccessDenied(o, me.user)

\* C29: create_organization stores max_monthly_lessons and subscription_tier
\* as the body gives them, and the defaults 50 and 'trial' only when the body
\* gives none.
C29_StoredAsSupplied ==
    resp.op = "create_organization" =>
        /\ resp.body.max_monthly_lessons =
              IF resp.request.max_monthly_lessons = << >>
              THEN 50
              ELSE resp.request.max_monthly_lessons[1]
        /\ resp.body.subscription_tier =
              IF resp.request.subscription_tier = << >>
              THEN "trial"
              ELSE resp.request.subscription_tier[1]
        /\ organizations[resp.org_id] = resp.body

\* C30: however often init_db has run, the database holds at most one
\* organization named 'Edu-SmartAI' and at most one super_admin.
C30_InitDbIdempotent ==
    /\ Cardinality({ o \in DOMAIN organizations :
                        organizations[o].name = "Edu-SmartAI" }) <= 1
    /\ Cardinality(SuperAdmins) <= 1

====
